---- MODULE Spec2Model ----
(***************************************************************************)
(* Model of matrix-bot-help's event handlers (src/src/main.rs):            *)
(*   on_stripped_state_member  - auto-join on invitation, with the         *)
(*                               detached retry task it spawns             *)
(*   on_room_member            - join detection and welcome message        *)
(*   on_room_message           - the !help command                         *)
(* and of should_ignore_user (src/src/lib.rs).                             *)
(*                                                                         *)
(* The Matrix client library is the environment: it delivers events one    *)
(* at a time to the handlers (each handler is awaited before the next      *)
(* event is dispatched), answers room.state(), and its room.join() and     *)
(* room.send() calls succeed or fail nondeterministically.                 *)
(***************************************************************************)
EXTENDS Integers, Sequences, FiniteSets, TLC

VARIABLES
    units,          \* the tasks created by tokio::spawn, in creation order
    nStripped,      \* number of stripped member events delivered so far
    lastStripped,   \* the last stripped member event delivered (or NoEvent)
    cfg,            \* the Config the handlers were registered with
    nEvents,        \* number of message / member events delivered so far
    lastMember,     \* the last member event delivered, with what it caused
    lastMessage,    \* the last message event delivered, with what it caused
    sent,           \* every call of room.send(), in call order
    nNewJoin,       \* number of member events announced as a new join so far
    call            \* the last call of a function of lib.rs, with its result

vars == <<units, nStripped, lastStripped, cfg, nEvents, lastMember, lastMessage,
          sent, nNewJoin, call>>

retryVars == <<units, nStripped, lastStripped>>
eventVars == <<nEvents, lastMember, lastMessage, sent, nNewJoin>>
\* what the handlers only read
fixedVars == <<cfg, call>>

----------------------------------------------------------------------------
(* Bounds of the model *)

\* stripped member events delivered in one run
MaxInvites == 2
\* member events delivered in one run of the join-detection specification
MaxEvents == 2
\* message / member events delivered in one run of the whole-system specification
MaxMixed == 1
\* message events delivered in one run of the help-command specification
MaxMessages == 2
\* message / member events delivered in one run of the send-failure specification
MaxSends == 3

----------------------------------------------------------------------------
(* Values *)

NoEvent == [kind |-> "none"]
NoCall == [fn |-> "none"]

\* Identities and texts are sequences of characters.
BotUserId == <<"@", "h", "e", "l", "p", ":", "x">>
NewUser == <<"@", "n", "e", "w", ":", "x">>
OldUser == <<"@", "o", "l", "d", ":", "x">>
RoBotUser == <<"@", "R", "o", "B", "o", "T", ":", "x">>
Users == {BotUserId, NewUser, OldUser}
Rooms == {"!a:x", "!b:x"}

\* RoomState of the client library, as returned by room.state()
RoomStates == {"Joined", "Invited", "Left"}

\* HelpFormat (lib.rs)
HelpFormats == {"Plain", "Html", "Markdown"}

\* let mut delay = 2;
InitialDelay == 2
\* if delay > 3600
DelayCeiling == 3600

----------------------------------------------------------------------------
(* The retry task spawned by on_stripped_state_member *)

Entry(e, k) == [ev |-> e, n |-> k]

\* the retry loop run inside the handler instead of in a spawned task
SpawnRetry_Inline(room) ==
    [room |-> room, detached |-> FALSE, pc |-> "join", delay |-> InitialDelay, trace |-> <<>>]

\* tokio::spawn(async move { let mut delay = 2; ... }): a detached task that
\* is about to make its first room.join() call
SpawnRetry(room) ==
    [room |-> room, detached |-> TRUE, pc |-> "join", delay |-> InitialDelay, trace |-> <<>>]

\* The client library awaits a handler before it dispatches the next event;
\* a task made by tokio::spawn is detached from the handler that made it.
HandlerReturned ==
    \A u \in DOMAIN units : units[u].detached \/ units[u].pc = "done"

\* the retry tasks that have not finished
TasksRunning == Cardinality({i \in DOMAIN units : units[i].pc # "done"})

\* on_stripped_state_member that does not look at whom the event is about
OnStrippedStateMember_AnyInvitee(event, room) ==
    /\ HandlerReturned
    /\ nStripped' = nStripped + 1
    /\ lastStripped' = [kind |-> "stripped", room |-> room,
                        state_key |-> event.state_key,
                        membership |-> event.membership]
    /\ IF event.membership = "invite"
         THEN units' = Append(units, SpawnRetry(room))
         ELSE units' = units
    /\ UNCHANGED <<fixedVars, eventVars>>

\* on_stripped_state_member(event, client, room)
OnStrippedStateMember(event, room) ==
    /\ HandlerReturned
    /\ nStripped' = nStripped + 1
    /\ lastStripped' = [kind |-> "stripped", room |-> room,
                        state_key |-> event.state_key,
                        membership |-> event.membership]
    /\ IF event.state_key # BotUserId
         THEN units' = units
         ELSE IF event.membership = "invite"
                THEN units' = Append(units, SpawnRetry(room))
                ELSE units' = units
    /\ UNCHANGED <<fixedVars, eventVars>>

\* while let Err(e) = room.join().await { eprintln!(...); ...
JoinInLoop(u, ok) ==
    IF ok
      THEN [u EXCEPT !.pc = "final",
                     !.trace = Append(@, Entry("join_ok", 0))]
      ELSE [u EXCEPT !.pc = "sleep",
                     !.trace = @ \o <<Entry("join_err", 0),
                                      Entry("retrying_in", u.delay)>>]

\* SleepDone with a delay that grows by 2 instead of doubling
SleepDone_Linear(u) ==
    LET d == u.delay + 2 IN
    IF d > DelayCeiling
      THEN [u EXCEPT !.delay = d, !.pc = "final",
                     !.trace = @ \o <<Entry("sleep", u.delay), Entry("abandoned", 0)>>]
      ELSE [u EXCEPT !.delay = d, !.pc = "join",
                     !.trace = Append(@, Entry("sleep", u.delay))]

\* SleepDone that starts the task over instead of giving up at the ceiling
SleepDone_StartOver(u) ==
    LET d == u.delay * 2 IN
    IF d > DelayCeiling
      THEN [u EXCEPT !.delay = InitialDelay, !.pc = "join", !.trace = <<>>]
      ELSE [u EXCEPT !.delay = d, !.pc = "join",
                     !.trace = Append(@, Entry("sleep", u.delay))]

\* SleepDone with a delay that is multiplied by 4
SleepDone_Quadruple(u) ==
    LET d == u.delay * 4 IN
    IF d > DelayCeiling
      THEN [u EXCEPT !.delay = d, !.pc = "final",
                     !.trace = @ \o <<Entry("sleep", u.delay), Entry("abandoned", 0)>>]
      ELSE [u EXCEPT !.delay = d, !.pc = "join",
                     !.trace = Append(@, Entry("sleep", u.delay))]

\* ... tokio::time::sleep(from_secs(delay)).await; delay *= 2;
\*     if delay > 3600 { eprintln!("Can't join room ..."); break; } }
SleepDone(u) ==
    LET d == u.delay * 2 IN
    IF d > DelayCeiling
      THEN [u EXCEPT !.delay = d, !.pc = "final",
                     !.trace = @ \o <<Entry("sleep", u.delay), Entry("abandoned", 0)>>]
      ELSE [u EXCEPT !.delay = d, !.pc = "join",
                     !.trace = Append(@, Entry("sleep", u.delay))]

\* if (room.join().await).is_ok() { println!("Successfully joined room ..."); }
JoinAfterLoop(u, ok) ==
    IF ok
      THEN [u EXCEPT !.pc = "done",
                     !.trace = @ \o <<Entry("join_ok", 0), Entry("success", 0)>>]
      ELSE [u EXCEPT !.pc = "done",
                     !.trace = Append(@, Entry("join_err", 0))]

UnitJoin(i) ==
    /\ units[i].pc = "join"
    /\ \E ok \in BOOLEAN : units' = [units EXCEPT ![i] = JoinInLoop(units[i], ok)]
    /\ UNCHANGED <<nStripped, lastStripped, fixedVars, eventVars>>

UnitSleep(i) ==
    /\ units[i].pc = "sleep"
    /\ units' = [units EXCEPT ![i] = SleepDone(units[i])]
    /\ UNCHANGED <<nStripped, lastStripped, fixedVars, eventVars>>

UnitFinalJoin(i) ==
    /\ units[i].pc = "final"
    /\ \E ok \in BOOLEAN : units' = [units EXCEPT ![i] = JoinAfterLoop(units[i], ok)]
    /\ UNCHANGED <<nStripped, lastStripped, fixedVars, eventVars>>

\* StrippedRoomMemberEvent: the member events of a room the bot is invited to
StrippedEvents == [state_key : {BotUserId, NewUser}, membership : {"invite", "join"}]

----------------------------------------------------------------------------
(* Reading a retry task's trace *)

IsJoin(e) == e.ev \in {"join_ok", "join_err"}

\* the room.join() calls the task has made, as their results in call order
JoinResults(t) ==
    LET j == SelectSeq(t, IsJoin) IN [i \in 1..Len(j) |-> j[i].ev = "join_ok"]

JoinCalls(t) == Len(JoinResults(t))

\* the delays the task has slept, in order
Sleeps(t) ==
    LET s == SelectSeq(t, LAMBDA e : e.ev = "sleep") IN [i \in 1..Len(s) |-> s[i].n]

Reported(t, what) == \E i \in 1..Len(t) : t[i].ev = what

RECURSIVE Pow2(_)
Pow2(k) == IF k = 0 THEN 1 ELSE 2 * Pow2(k - 1)

\* <<2, 4, ..., 2^k>>
Doubling(k) == [i \in 1..k |-> Pow2(i)]

\* no room.join() call is made after an entry of kind `what`
NoJoinAfter(t, what) ==
    \A i, j \in 1..Len(t) : (i < j /\ t[i].ev = what) => ~IsJoin(t[j])

\* every join call so far has failed
AlwaysFailed(t) == \A i \in 1..Len(t) : t[i].ev # "join_ok"

\* the join results are k failures followed by successes only
FailsThenSucceeds(t, k) ==
    LET r == JoinResults(t) IN
    /\ Len(r) > k
    /\ \A i \in 1..Len(r) : r[i] = (i > k)

Running(u) == u.pc # "done"

----------------------------------------------------------------------------
(* Claims about the retry task *)

\* C1: for a join that fails on every attempt the task sleeps exactly
\* 2, 4, 8, ... seconds, issues no join attempt once the pending delay has
\* exceeded 3600 seconds, and has made 12 join attempts when it stops.
C1_BackoffStopsAtCeiling ==
    \A i \in DOMAIN units :
        LET u == units[i] IN
        AlwaysFailed(u.trace) =>
            /\ Sleeps(u.trace) = Doubling(Len(Sleeps(u.trace)))
            /\ (u.delay > DelayCeiling => NoJoinAfter(u.trace, "abandoned"))
            /\ (u.pc = "done" => JoinCalls(u.trace) = 12)

\* What the code does for a join that never succeeds: sleeps 2 .. 2048,
\* eleven join calls in the loop and a twelfth after the loop was abandoned.
AlwaysFailingRun ==
    \A i \in DOMAIN units :
        LET u == units[i] IN
        (AlwaysFailed(u.trace) /\ u.pc = "done") =>
            /\ Sleeps(u.trace) = Doubling(11)
            /\ JoinCalls(u.trace) = 12
            /\ u.trace[Len(u.trace) - 1].ev = "abandoned"
            /\ u.trace[Len(u.trace)].ev = "join_err"

\* C2: once a join attempt has succeeded no further join call is made for
\* that invitation; a join failing twice and then succeeding is called
\* exactly three times.
C2_NoJoinAfterSuccess ==
    \A i \in DOMAIN units :
        LET u == units[i] IN
        /\ NoJoinAfter(u.trace, "join_ok")
        /\ (u.pc = "done" /\ FailsThenSucceeds(u.trace, 2)) => JoinCalls(u.trace) = 3

\* C3: at any time at most one retry task per room is running.
C3_OneRetryLoopPerRoom ==
    \A i, j \in DOMAIN units :
        (i # j /\ units[i].room = units[j].room) =>
            ~(Running(units[i]) /\ Running(units[j]))

\* C4: once the delay has exceeded the ceiling the task has emitted the
\* terminal failure report and makes no further join attempt.
C4_AbandonedMakesNoAttempt ==
    \A i \in DOMAIN units :
        LET u == units[i] IN
        u.delay > DelayCeiling =>
            /\ Reported(u.trace, "abandoned")
            /\ NoJoinAfter(u.trace, "abandoned")

\* C5: when the join fails exactly k times and then succeeds (k small
\* enough that the ceiling is not reached), exactly k delays 2, 4, ..., 2^k
\* are slept, in that order, followed by the success report.
C5_FailKThenSucceed ==
    \A i \in DOMAIN units :
        LET u == units[i] IN
        u.pc = "done" =>
            LET r == JoinResults(u.trace)
                k == Cardinality({j \in 1..Len(r) : ~r[j]})
            IN  (k <= 10 /\ Len(r) > k /\ \A j \in 1..Len(r) : r[j] = (j > k)) =>
                    /\ Sleeps(u.trace) = Doubling(k)
                    /\ u.trace[Len(u.trace)].ev = "success"
                    /\ ~Reported(u.trace, "abandoned")
                    /\ Len(SelectSeq(u.trace, LAMBDA e : e.ev = "success")) = 1

\* C5 witness: a task whose join failed twice and then succeeded has finished
C5_Witness ==
    \E i \in DOMAIN units :
        /\ units[i].pc = "done"
        /\ FailsThenSucceeds(units[i].trace, 2)
        /\ Sleeps(units[i].trace) = <<2, 4>>

----------------------------------------------------------------------------
(* Configuration (lib.rs) *)

WelcomeShort == <<"H", "i", "!">>
WelcomeLong == <<"W", "e", "l", "c", "o", "m", "e">>
Templates == {WelcomeShort, WelcomeLong}

HelpText == <<"u", "s", "e", " ", "!", "h", "e", "l", "p">>

\* struct JoinDetectionConfig
JoinDetectionConfigs ==
    [enabled : BOOLEAN, monitored_rooms : SUBSET Rooms, send_welcome : BOOLEAN,
     welcome_message : Templates, welcome_format : HelpFormats,
     welcome_timeout_seconds : {300}]

\* struct BotFilteringConfig
BotFilteringConfigs ==
    [ignore_self : BOOLEAN, ignore_bots : BOOLEAN,
     ignored_users : {{}, {OldUser}}]

\* a configuration that answers !help and welcomes new members in every room
BaseConfig ==
    [help_text |-> HelpText, help_format |-> "Plain",
     bot_filtering |->
        [ignore_self |-> TRUE, ignore_bots |-> FALSE, ignored_users |-> {}],
     join_detection |->
        [enabled |-> TRUE, monitored_rooms |-> {}, send_welcome |-> TRUE,
         welcome_message |-> WelcomeShort, welcome_format |-> "Plain",
         welcome_timeout_seconds |-> 300]]

----------------------------------------------------------------------------
(* Message content (RoomMessageEventContent constructors of the library) *)

NoFormatted == [format |-> "none", body |-> <<>>]

\* RoomMessageEventContent::text_plain(body)
text_plain(body) ==
    [msgtype |-> "m.text", body |-> body, formatted |-> NoFormatted]

\* RoomMessageEventContent::text_html(body, html_body)
text_html(body, html_body) ==
    [msgtype |-> "m.text", body |-> body,
     formatted |-> [format |-> "org.matrix.custom.html", body |-> html_body]]

\* RoomMessageEventContent::text_markdown(body): the library renders the
\* markdown source; the rendering is kept symbolic
text_markdown(body) ==
    [msgtype |-> "m.text", body |-> body,
     formatted |-> [format |-> "markdown", body |-> body]]

----------------------------------------------------------------------------
(* on_room_member: join detection *)

\* Classify without the check of the previous membership
Classify_NoPrevCheck(event, room, room_state, jd) ==
    IF ~jd.enabled THEN "Skip_disabled"
    ELSE IF room_state # "Joined" THEN "Skip_not_joined"
    ELSE IF jd.monitored_rooms # {} /\ room \notin jd.monitored_rooms
        THEN "Skip_not_monitored"
    ELSE IF event.state_key = BotUserId THEN "Skip_self"
    ELSE IF event.kind = "Redacted" THEN "Skip_redacted"
    ELSE IF event.membership # "join" THEN "Skip_not_a_join"
    ELSE "NewJoin"

\* Classify without the check for the bot's own identity
Classify_NoSelfCheck(event, room, room_state, jd) ==
    IF ~jd.enabled THEN "Skip_disabled"
    ELSE IF room_state # "Joined" THEN "Skip_not_joined"
    ELSE IF jd.monitored_rooms # {} /\ room \notin jd.monitored_rooms
        THEN "Skip_not_monitored"
    ELSE IF event.kind = "Redacted" THEN "Skip_redacted"
    ELSE IF event.membership # "join" THEN "Skip_not_a_join"
    ELSE IF event.prev # "none" /\ event.prev = "join" THEN "Skip_redundant_update"
    ELSE "NewJoin"

\* Classify without the monitored_rooms check
Classify_NoMonitoredCheck(event, room, room_state, jd) ==
    IF ~jd.enabled THEN "Skip_disabled"
    ELSE IF room_state # "Joined" THEN "Skip_not_joined"
    ELSE IF event.state_key = BotUserId THEN "Skip_self"
    ELSE IF event.kind = "Redacted" THEN "Skip_redacted"
    ELSE IF event.membership # "join" THEN "Skip_not_a_join"
    ELSE IF event.prev # "none" /\ event.prev = "join" THEN "Skip_redundant_update"
    ELSE "NewJoin"

\* Classify that treats a redacted record like an original one
Classify_RedactedAsOriginal(event, room, room_state, jd) ==
    IF ~jd.enabled THEN "Skip_disabled"
    ELSE IF room_state # "Joined" THEN "Skip_not_joined"
    ELSE IF jd.monitored_rooms # {} /\ room \notin jd.monitored_rooms
        THEN "Skip_not_monitored"
    ELSE IF event.state_key = BotUserId THEN "Skip_self"
    ELSE IF event.membership # "join" THEN "Skip_not_a_join"
    ELSE IF event.prev # "none" /\ event.prev = "join" THEN "Skip_redundant_update"
    ELSE "NewJoin"

\* The checks of on_room_member, in the code's order; "NewJoin" is reaching
\* println!("User {} joined room {}", ...)
Classify(event, room, room_state, jd) ==
    IF ~jd.enabled THEN "Skip_disabled"
    ELSE IF room_state # "Joined" THEN "Skip_not_joined"
    ELSE IF jd.monitored_rooms # {} /\ room \notin jd.monitored_rooms
        THEN "Skip_not_monitored"
    ELSE IF event.state_key = BotUserId THEN "Skip_self"
    ELSE IF event.kind = "Redacted" THEN "Skip_redacted"
    ELSE IF event.membership # "join" THEN "Skip_not_a_join"
    ELSE IF event.prev # "none" /\ event.prev = "join" THEN "Skip_redundant_update"
    ELSE "NewJoin"

\* WelcomeText with the subject and the template swapped
WelcomeText_Swapped(user_id, jd) == jd.welcome_message \o <<":", " ">> \o user_id

\* format!("{}: {}", user_id, join_detection_config.welcome_message)
WelcomeText(user_id, jd) == user_id \o <<":", " ">> \o jd.welcome_message

\* match join_detection_config.welcome_format { ... }
WelcomeContent(user_id, jd) ==
    LET welcome_text == WelcomeText(user_id, jd) IN
    CASE jd.welcome_format = "Plain" -> text_plain(welcome_text)
      [] jd.welcome_format = "Html" -> text_html(welcome_text, welcome_text)
      [] jd.welcome_format = "Markdown" -> text_markdown(welcome_text)

\* WelcomeSends that sends a second time when the first send fails
WelcomeSends_Retry(event, room, outcome, jd, send_ok) ==
    IF outcome = "NewJoin" /\ jd.send_welcome
      THEN IF send_ok
             THEN <<[room |-> room, content |-> WelcomeContent(event.state_key, jd),
                     ok |-> TRUE]>>
             ELSE <<[room |-> room, content |-> WelcomeContent(event.state_key, jd),
                     ok |-> FALSE],
                    [room |-> room, content |-> WelcomeContent(event.state_key, jd),
                     ok |-> TRUE]>>
      ELSE <<>>

\* WelcomeSends that sends no welcome when the deduplication window is 0
WelcomeSends_WindowGated(event, room, outcome, jd, send_ok) ==
    IF outcome = "NewJoin" /\ jd.send_welcome /\ jd.welcome_timeout_seconds > 0
      THEN <<[room |-> room, content |-> WelcomeContent(event.state_key, jd),
              ok |-> send_ok]>>
      ELSE <<>>

\* WelcomeSends that welcomes every new join, send_welcome set or not
WelcomeSends_Always(event, room, outcome, jd, send_ok) ==
    IF outcome = "NewJoin"
      THEN <<[room |-> room, content |-> WelcomeContent(event.state_key, jd),
              ok |-> send_ok]>>
      ELSE <<>>

\* the room.send() calls of one run of on_room_member
WelcomeSends(event, room, outcome, jd, send_ok) ==
    IF outcome = "NewJoin" /\ jd.send_welcome
      THEN <<[room |-> room, content |-> WelcomeContent(event.state_key, jd),
              ok |-> send_ok]>>
      ELSE <<>>

\* what one run of on_room_member prints
MemberReports(outcome, sends) ==
    IF outcome # "NewJoin" THEN <<>>
    ELSE IF sends = <<>> THEN <<"user_joined">>
    ELSE IF sends[1].ok THEN <<"user_joined", "sent_welcome">>
    ELSE <<"user_joined", "failed_to_send_welcome">>

\* room.send(response).await is reached, and may succeed or fail, only for
\* a new join with send_welcome set
WelcomeSendResults(outcome, jd) ==
    IF outcome = "NewJoin" /\ jd.send_welcome THEN BOOLEAN ELSE {TRUE}

\* on_room_member(event, room, &join_detection_config)
OnRoomMember(event, room, room_state) ==
    LET jd == cfg.join_detection
        outcome == Classify(event, room, room_state, jd)
    IN  /\ HandlerReturned
        /\ nEvents' = nEvents + 1
        /\ nNewJoin' = IF outcome = "NewJoin" THEN nNewJoin + 1 ELSE nNewJoin
        /\ \E send_ok \in WelcomeSendResults(outcome, jd) :
              LET sends == WelcomeSends(event, room, outcome, jd, send_ok) IN
              /\ lastMember' = [kind |-> "member", event |-> event, room |-> room,
                                room_state |-> room_state, outcome |-> outcome,
                                sends |-> sends,
                                reports |-> MemberReports(outcome, sends),
                                tasks_running |-> TasksRunning]
              /\ sent' = sent \o sends
        /\ UNCHANGED <<retryVars, fixedVars, lastMessage>>

\* SyncRoomMemberEvent: an original event with its membership and the
\* membership of its prev_content (or "none"), or a redacted one
MemberEvents ==
    [kind : {"Original"}, state_key : Users, membership : {"join", "leave"},
     prev : {"none", "join", "invite"}]
    \cup [kind : {"Redacted"}, state_key : Users, membership : {"join"},
          prev : {"none"}]

----------------------------------------------------------------------------
(* should_ignore_user (lib.rs) *)

UpperCase == <<"A", "B", "C", "D", "E", "F", "G", "H", "I", "J", "K", "L", "M",
               "N", "O", "P", "Q", "R", "S", "T", "U", "V", "W", "X", "Y", "Z">>
LowerCase == <<"a", "b", "c", "d", "e", "f", "g", "h", "i", "j", "k", "l", "m",
               "n", "o", "p", "q", "r", "s", "t", "u", "v", "w", "x", "y", "z">>

\* char::to_lowercase on the characters of an identity
ToLowerChar(c) ==
    IF \E i \in 1..Len(UpperCase) : UpperCase[i] = c
      THEN LowerCase[CHOOSE i \in 1..Len(UpperCase) : UpperCase[i] = c]
      ELSE c

\* to_lowercase that leaves the string as it is
to_lowercase_Identity(str) == str

\* str::to_lowercase
to_lowercase(str) == [i \in 1..Len(str) |-> ToLowerChar(str[i])]

\* str::starts_with
starts_with(str, prefix) ==
    /\ Len(str) >= Len(prefix)
    /\ SubSeq(str, 1, Len(prefix)) = prefix

\* str::contains
contains(str, pat) ==
    \E i \in 1..(Len(str) + 1) :
        /\ i + Len(pat) - 1 <= Len(str)
        /\ SubSeq(str, i, i + Len(pat) - 1) = pat

\* should_ignore_user that consults the ignored list only with ignore_bots set
should_ignore_user_ListNeedsFlag(user_id, bot_user_id, config) ==
    IF config.ignore_self /\ user_id = bot_user_id THEN TRUE
    ELSE IF config.ignore_bots /\ user_id \in config.ignored_users THEN TRUE
    ELSE IF config.ignore_bots /\ contains(to_lowercase(user_id), <<"b", "o", "t">>) THEN TRUE
    ELSE FALSE

\* should_ignore_user whose self check is overridden by the other rules
should_ignore_user_SelfLast(user_id, bot_user_id, config) ==
    IF user_id \in config.ignored_users THEN TRUE
    ELSE IF config.ignore_bots
        THEN contains(to_lowercase(user_id), <<"b", "o", "t">>)
    ELSE config.ignore_self /\ user_id = bot_user_id

\* should_ignore_user that lets ignore_self decide alone for the bot's own identity
should_ignore_user_SelfExempt(user_id, bot_user_id, config) ==
    IF user_id = bot_user_id THEN config.ignore_self
    ELSE IF user_id \in config.ignored_users THEN TRUE
    ELSE IF config.ignore_bots /\ contains(to_lowercase(user_id), <<"b", "o", "t">>) THEN TRUE
    ELSE FALSE

\* should_ignore_user(user_id, bot_user_id, config)
should_ignore_user(user_id, bot_user_id, config) ==
    IF config.ignore_self /\ user_id = bot_user_id THEN TRUE
    ELSE IF user_id \in config.ignored_users THEN TRUE
    ELSE IF config.ignore_bots /\ contains(to_lowercase(user_id), <<"b", "o", "t">>) THEN TRUE
    ELSE FALSE

----------------------------------------------------------------------------
(* on_room_message: the help command *)

HelpCommand == <<"!", "h", "e", "l", "p">>

\* MessageOutcome that looks for the command before it filters the sender
MessageOutcome_CommandFirst(event, room_state) ==
    IF room_state # "Joined" THEN "Skip_not_joined"
    ELSE IF event.msgtype # "text" THEN "Skip_not_text"
    ELSE IF starts_with(event.body, HelpCommand) THEN "Help"
    ELSE IF should_ignore_user(event.sender, BotUserId, cfg.bot_filtering)
        THEN "Skip_ignored"
    ELSE "Skip_no_command"

\* what on_room_message decides, in the code's order
MessageOutcome(event, room_state) ==
    IF room_state # "Joined" THEN "Skip_not_joined"
    ELSE IF event.msgtype # "text" THEN "Skip_not_text"
    ELSE IF should_ignore_user(event.sender, BotUserId, cfg.bot_filtering)
        THEN "Skip_ignored"
    ELSE IF starts_with(event.body, HelpCommand) THEN "Help"
    ELSE "Skip_no_command"

\* HelpContent that ignores the configured format
HelpContent_AlwaysPlain(help_format, help_text) == text_plain(help_text)

\* match help_format { ... }
HelpContent(help_format, help_text) ==
    CASE help_format = "Plain" -> text_plain(help_text)
      [] help_format = "Html" -> text_html(help_text, help_text)
      [] help_format = "Markdown" -> text_markdown(help_text)

\* the room.send() calls of one run of on_room_message
HelpSends(room, outcome, send_ok) ==
    IF outcome = "Help"
      THEN <<[room |-> room, content |-> HelpContent(cfg.help_format, cfg.help_text),
              ok |-> send_ok]>>
      ELSE <<>>

\* what one run of on_room_message prints
MessageReports(outcome, sends) ==
    IF outcome = "Skip_ignored" THEN <<"ignoring_filtered_user">>
    ELSE IF outcome # "Help" THEN <<>>
    ELSE IF sends[1].ok THEN <<"help_request">>
    ELSE <<"help_request", "failed_to_send_help">>

\* on_room_message(event, room, &help_text, &bot_user_id, &bot_filtering, &help_format)
OnRoomMessage(event, room, room_state) ==
    LET outcome == MessageOutcome(event, room_state) IN
    /\ HandlerReturned
    /\ nEvents' = nEvents + 1
    /\ \E send_ok \in (IF outcome = "Help" THEN BOOLEAN ELSE {TRUE}) :
          LET sends == HelpSends(room, outcome, send_ok) IN
          /\ lastMessage' = [kind |-> "message", event |-> event, room |-> room,
                             room_state |-> room_state, outcome |-> outcome,
                             sends |-> sends,
                             reports |-> MessageReports(outcome, sends),
                             tasks_running |-> TasksRunning]
          /\ sent' = sent \o sends
    /\ UNCHANGED <<retryVars, fixedVars, lastMember, nNewJoin>>

----------------------------------------------------------------------------
(* Specification of join detection *)

InitMember ==
    /\ units = <<>>
    /\ nStripped = 0
    /\ lastStripped = NoEvent
    /\ cfg \in [help_text : {HelpText}, help_format : {"Plain"},
                bot_filtering : {BaseConfig.bot_filtering},
                join_detection : JoinDetectionConfigs]
    /\ nEvents = 0
    /\ lastMember = NoEvent
    /\ lastMessage = NoEvent
    /\ sent = <<>>
    /\ nNewJoin = 0
    /\ call = NoCall

NextMember ==
    \E e \in MemberEvents, r \in Rooms, rs \in RoomStates :
        nEvents < MaxEvents /\ OnRoomMember(e, r, rs)

SpecMember == InitMember /\ [][NextMember]_vars

----------------------------------------------------------------------------
(* Claims about join detection *)

Handled == lastMember.kind = "member"

NothingSent(m) == m.sends = <<>> /\ m.reports = <<>>

\* the membership event would be a new join if only its membership and
\* previous membership decided
AllOtherConditionsHold(m) ==
    /\ cfg.join_detection.enabled
    /\ cfg.join_detection.send_welcome
    /\ m.room_state = "Joined"
    /\ (cfg.join_detection.monitored_rooms = {}
            \/ m.room \in cfg.join_detection.monitored_rooms)
    /\ m.event.kind = "Original"

\* C7: a membership event with previous state Join and new state Join never
\* produces a NewJoin outcome: no announcement, no welcome send.
C7_JoinToJoinNeverNewJoin ==
    (Handled /\ lastMember.event.membership = "join" /\ lastMember.event.prev = "join")
        => (lastMember.outcome # "NewJoin" /\ NothingSent(lastMember))

C7_Witness ==
    /\ Handled
    /\ AllOtherConditionsHold(lastMember)
    /\ lastMember.event.state_key = NewUser
    /\ lastMember.event.membership = "join"
    /\ lastMember.event.prev = "join"
    /\ nEvents = 2 /\ nNewJoin = 1

\* C8: a membership event whose subject is the bot itself never produces a
\* NewJoin outcome and never triggers a welcome send.
C8_SelfNeverNewJoin ==
    (Handled /\ lastMember.event.state_key = BotUserId)
        => (lastMember.outcome # "NewJoin" /\ NothingSent(lastMember))

C8_Witness ==
    /\ Handled
    /\ AllOtherConditionsHold(lastMember)
    /\ lastMember.event.state_key = BotUserId
    /\ lastMember.event.membership = "join"
    /\ lastMember.event.prev = "none"
    /\ lastMember.outcome = "Skip_self"

\* the content room.send() must be given for a welcome of `user_id`
IsWelcomeFor(content, user_id, jd) ==
    /\ content.msgtype = "m.text"
    /\ content.body = user_id \o <<":", " ">> \o jd.welcome_message
    /\ jd.welcome_format = "Plain" => content.formatted.format = "none"
    /\ jd.welcome_format = "Html" =>
          /\ content.formatted.format = "org.matrix.custom.html"
          /\ content.formatted.body = content.body
    /\ jd.welcome_format = "Markdown" => content.formatted.format = "markdown"

NewJoinSendsOnce(m) ==
    /\ Len(m.sends) = 1
    /\ m.sends[1].room = m.room
    /\ IsWelcomeFor(m.sends[1].content, m.event.state_key, cfg.join_detection)
    /\ sent[Len(sent)] = m.sends[1]

\* C9 as stated: every membership event classified as NewJoin causes exactly
\* one room.send() call carrying "<subject>: <template>" in the configured
\* format, and n such events cause n sends.
C9_EveryNewJoinIsSent ==
    /\ (Handled /\ lastMember.outcome = "NewJoin") => NewJoinSendsOnce(lastMember)
    /\ Len(sent) = nNewJoin

\* C9 amended: with send_welcome set, every membership event classified as
\* NewJoin causes exactly one room.send() call carrying "<subject>: <template>"
\* in the configured format, and n such events cause n sends (repeats for the
\* same subject and room included).
C9_NewJoinIsSentWhenSendWelcome ==
    cfg.join_detection.send_welcome =>
        /\ (Handled /\ lastMember.outcome = "NewJoin") => NewJoinSendsOnce(lastMember)
        /\ Len(sent) = nNewJoin

\* C9 witness: "@new:x" joins the same room twice (no previous state,
\* monitored_rooms empty, welcome enabled) and is welcomed twice
C9_Witness ==
    /\ Handled
    /\ cfg.join_detection.enabled /\ cfg.join_detection.send_welcome
    /\ cfg.join_detection.monitored_rooms = {}
    /\ cfg.join_detection.welcome_message = WelcomeShort
    /\ lastMember.event.state_key = NewUser
    /\ lastMember.event.prev = "none"
    /\ lastMember.outcome = "NewJoin"
    /\ Len(sent) = 2
    /\ sent[1].room = sent[2].room
    /\ sent[1].content.body = <<"@", "n", "e", "w", ":", "x", ":", " ", "H", "i", "!">>
    /\ sent[2].content.body = sent[1].content.body

\* C10: the outcome is NewJoin exactly when join detection is enabled, the
\* bot is Joined in the room, monitored_rooms is empty or contains the room,
\* the subject is not the bot, the record is not redacted, the new state is
\* Join and the previous state is None or not Join; otherwise nothing is sent.
C10_NewJoinExactlyWhen ==
    Handled =>
        LET m == lastMember
            jd == cfg.join_detection
            qualifies ==
                /\ jd.enabled
                /\ m.room_state = "Joined"
                /\ (jd.monitored_rooms = {} \/ m.room \in jd.monitored_rooms)
                /\ m.event.state_key # BotUserId
                /\ m.event.kind # "Redacted"
                /\ m.event.membership = "join"
                /\ (m.event.prev = "none" \/ m.event.prev # "join")
        IN  /\ (m.outcome = "NewJoin") <=> qualifies
            /\ "user_joined" \in {m.reports[i] : i \in 1..Len(m.reports)} <=> qualifies
            /\ ~qualifies => NothingSent(m)

C10_Witness ==
    /\ Handled
    /\ lastMember.outcome = "NewJoin"
    /\ cfg.join_detection.monitored_rooms = {lastMember.room}
    /\ lastMember.event.prev = "invite"
    /\ Len(lastMember.sends) = 1

\* C24: a redacted membership record is never classified: whatever the
\* configuration, the room and the subject are, it is no new join, causes
\* no room.send() call and nothing is printed, an error included.
C24_RedactedIsSkipped ==
    (Handled /\ lastMember.event.kind = "Redacted")
        => /\ lastMember.outcome # "NewJoin"
           /\ NothingSent(lastMember)
           /\ nNewJoin <= nEvents - 1

\* C24 witness: a redacted record of another user, in a joined and
\* monitored room with join detection and the welcome enabled, is skipped
C24_Witness ==
    /\ Handled
    /\ lastMember.event.kind = "Redacted"
    /\ lastMember.event.state_key = NewUser
    /\ lastMember.room_state = "Joined"
    /\ cfg.join_detection.enabled /\ cfg.join_detection.send_welcome
    /\ cfg.join_detection.monitored_rooms = {lastMember.room}
    /\ lastMember.outcome = "Skip_redacted"
    /\ nEvents = 1 /\ sent = <<>>

\* C29: with send_welcome false on_room_member never calls room.send(),
\* whatever the event and the rest of the configuration are, new joins with
\* join detection enabled included.
C29_NoWelcomeUnlessConfigured ==
    ~cfg.join_detection.send_welcome
        => /\ sent = <<>>
           /\ Handled => lastMember.sends = <<>>

\* C29 witness: a new join is detected and reported, and nothing is sent
C29_Witness ==
    /\ Handled
    /\ ~cfg.join_detection.send_welcome
    /\ cfg.join_detection.enabled
    /\ lastMember.outcome = "NewJoin"
    /\ lastMember.reports = <<"user_joined">>
    /\ nNewJoin = 2
    /\ sent = <<>>

----------------------------------------------------------------------------
(* Specification of the invitation handler and its retry tasks *)

InitRetry ==
    /\ units = <<>>
    /\ nStripped = 0
    /\ lastStripped = NoEvent
    /\ cfg = BaseConfig
    /\ nEvents = 0
    /\ lastMember = NoEvent
    /\ lastMessage = NoEvent
    /\ sent = <<>>
    /\ nNewJoin = 0
    /\ call = NoCall

NextRetry ==
    \/ \E e \in StrippedEvents, r \in Rooms :
          nStripped < MaxInvites /\ OnStrippedStateMember(e, r)
    \/ \E i \in DOMAIN units : UnitJoin(i)
    \/ \E i \in DOMAIN units : UnitSleep(i)
    \/ \E i \in DOMAIN units : UnitFinalJoin(i)

SpecRetry == InitRetry /\ [][NextRetry]_vars

----------------------------------------------------------------------------
(* Specification of the whole bot: invitations (one per room), their retry *)
(* tasks, and message and member events delivered while the tasks run     *)

MixedMemberEvents ==
    [kind : {"Original"}, state_key : {NewUser}, membership : {"join"},
     prev : {"none", "join"}]

MixedMessageEvents ==
    [sender : {NewUser}, msgtype : {"text"},
     body : {HelpCommand, <<"h", "i">>}]

Invitation == [state_key |-> BotUserId, membership |-> "invite"]

\* the room whose message and member events are delivered
MixedRoom == "!a:x"

Init ==
    /\ units = <<>>
    /\ nStripped = 0
    /\ lastStripped = NoEvent
    /\ cfg = BaseConfig
    /\ nEvents = 0
    /\ lastMember = NoEvent
    /\ lastMessage = NoEvent
    /\ sent = <<>>
    /\ nNewJoin = 0
    /\ call = NoCall

DeliverInvitation ==
    \E r \in Rooms :
        /\ \A i \in DOMAIN units : units[i].room # r
        /\ OnStrippedStateMember(Invitation, r)

DeliverMember ==
    \E e \in MixedMemberEvents :
        nEvents < MaxMixed /\ OnRoomMember(e, MixedRoom, "Joined")

DeliverMessage ==
    \E e \in MixedMessageEvents :
        nEvents < MaxMixed /\ OnRoomMessage(e, MixedRoom, "Joined")

Next ==
    \/ DeliverInvitation
    \/ DeliverMember
    \/ DeliverMessage
    \/ \E i \in DOMAIN units : UnitJoin(i)
    \/ \E i \in DOMAIN units : UnitSleep(i)
    \/ \E i \in DOMAIN units : UnitFinalJoin(i)

Spec == Init /\ [][Next]_vars

----------------------------------------------------------------------------
(* Claims about the whole bot *)

\* the delays slept and the join attempts made so far are those of a task
\* running alone: n sleeps 2, 4, ..., 2^n, a pending delay of 2^(n+1), and
\* one failed join attempt before each sleep
RunsAsIfAlone(u) ==
    LET n == Len(Sleeps(u.trace))
        r == JoinResults(u.trace)
    IN  /\ Sleeps(u.trace) = Doubling(n)
        /\ u.delay = Pow2(n + 1)
        /\ Len(r) >= n
        /\ \A j \in 1..n : ~r[j]
        /\ Len(r) <= n + 2
        /\ u.pc = "join" => Len(r) = n
        /\ u.pc = "sleep" => (Len(r) = n + 1 /\ ~r[n + 1])

\* C6: a retry task in its backoff delay does not block the handling of
\* other events: while tasks sleep or attempt a join, message events, member
\* events and invitations to other rooms are still handled; and the delay
\* and attempt sequence of each task is that of a task running alone,
\* whatever the interleaving with the other tasks and handlers.
C6_RetryDoesNotBlockOrInterfere ==
    /\ \A i \in DOMAIN units : RunsAsIfAlone(units[i])
    /\ (TasksRunning > 0 /\ nEvents < MaxMixed) =>
          /\ ENABLED DeliverMember
          /\ ENABLED DeliverMessage
    /\ (TasksRunning > 0 /\ \E r \in Rooms : \A i \in DOMAIN units : units[i].room # r)
          => ENABLED DeliverInvitation

\* C6 witness: a welcome was sent while two tasks were running, one of
\* which is now asleep after its second failure and the other attempting
C6_Witness ==
    /\ Len(units) = 2
    /\ units[1].pc = "sleep" /\ Sleeps(units[1].trace) = <<2>>
    /\ units[2].pc = "join" /\ Sleeps(units[2].trace) = <<2, 4, 8>>
    /\ lastMember.kind = "member"
    /\ lastMember.tasks_running = 2
    /\ Len(lastMember.sends) = 1

----------------------------------------------------------------------------
(* Specification of the help command *)

HelpTextOther == <<"a", "s", "k", " ", "m", "e">>

\* OriginalSyncRoomMessageEvent: a text message with its body, or a message
\* of another type
MessageEvents ==
    [sender : {BotUserId, NewUser, OldUser, RoBotUser}, msgtype : {"text"},
     body : {HelpCommand, HelpCommand \o <<" ", "m", "e">>, <<"h", "i">>,
             <<"!", "H", "E", "L", "P">>}]
    \cup [sender : {NewUser}, msgtype : {"image"}, body : {HelpCommand}]

\* the filtering configurations of the help-command specification: the
\* default, no filtering at all, and the bot pattern with an ignored user
MessageFilterings ==
    {[ignore_self |-> TRUE, ignore_bots |-> FALSE, ignored_users |-> {}],
     [ignore_self |-> FALSE, ignore_bots |-> FALSE, ignored_users |-> {}],
     [ignore_self |-> FALSE, ignore_bots |-> TRUE, ignored_users |-> {OldUser}]}

InitMessage ==
    /\ units = <<>>
    /\ nStripped = 0
    /\ lastStripped = NoEvent
    /\ cfg \in [help_text : {HelpText, HelpTextOther}, help_format : HelpFormats,
                bot_filtering : MessageFilterings,
                join_detection : {BaseConfig.join_detection}]
    /\ nEvents = 0
    /\ lastMember = NoEvent
    /\ lastMessage = NoEvent
    /\ sent = <<>>
    /\ nNewJoin = 0
    /\ call = NoCall

NextMessage ==
    \E e \in MessageEvents, r \in Rooms, rs \in RoomStates :
        nEvents < MaxMessages /\ OnRoomMessage(e, r, rs)

SpecMessage == InitMessage /\ [][NextMessage]_vars

----------------------------------------------------------------------------
(* Claims about the help command *)

HandledMessage == lastMessage.kind = "message"

\* the content room.send() must be given for the help text
IsHelpResponse(content) ==
    /\ content.msgtype = "m.text"
    /\ content.body = cfg.help_text
    /\ cfg.help_format = "Plain" => content.formatted.format = "none"
    /\ cfg.help_format = "Html" =>
          /\ content.formatted.format = "org.matrix.custom.html"
          /\ content.formatted.body = cfg.help_text
    /\ cfg.help_format = "Markdown" => content.formatted.format = "markdown"

\* the body begins with the five characters of "!help"
BeginsWithHelp(body) ==
    /\ Len(body) >= 5
    /\ body[1] = "!" /\ body[2] = "h" /\ body[3] = "e" /\ body[4] = "l" /\ body[5] = "p"

\* C11: a text message whose body starts with "!help", from a sender that is
\* not ignored, in a room the bot has joined, causes exactly one room.send()
\* call, to that room, carrying the help text in the configured format.
C11_HelpIsAnsweredOnce ==
    (/\ HandledMessage
     /\ lastMessage.room_state = "Joined"
     /\ lastMessage.event.msgtype = "text"
     /\ BeginsWithHelp(lastMessage.event.body)
     /\ ~should_ignore_user(lastMessage.event.sender, BotUserId, cfg.bot_filtering))
        => /\ Len(lastMessage.sends) = 1
           /\ lastMessage.sends[1].room = lastMessage.room
           /\ IsHelpResponse(lastMessage.sends[1].content)
           /\ Len(sent) >= 1 /\ sent[Len(sent)] = lastMessage.sends[1]

\* C11 witness: "!help me" from "@new:x" is answered in HTML, in the room
\* it was sent in, after an earlier message that was not answered
C11_Witness ==
    /\ HandledMessage
    /\ nEvents = 2 /\ Len(sent) = 1
    /\ cfg.help_format = "Html" /\ cfg.help_text = HelpTextOther
    /\ lastMessage.event.sender = NewUser
    /\ lastMessage.event.body = HelpCommand \o <<" ", "m", "e">>
    /\ lastMessage.room = "!b:x"
    /\ sent[1].room = "!b:x"
    /\ sent[1].content.formatted.body = HelpTextOther

\* C23: a message causes no room.send() call when the bot has not joined
\* the room, when the message is not a text, when its sender is ignored by
\* should_ignore_user, or when its body does not start with "!help"; the
\* sender is filtered before the body is examined, so a text of an ignored
\* sender in a joined room is reported as ignored whatever its body is, and
\* never as a help request.
C23_NoAnswerUnlessAllHold ==
    HandledMessage =>
        LET m == lastMessage
            ignored == should_ignore_user(m.event.sender, BotUserId, cfg.bot_filtering)
        IN /\ (\/ m.room_state # "Joined"
               \/ m.event.msgtype # "text"
               \/ ignored
               \/ ~BeginsWithHelp(m.event.body)) => m.sends = <<>>
           /\ (m.room_state = "Joined" /\ m.event.msgtype = "text" /\ ignored)
                 => m.reports = <<"ignoring_filtered_user">>

\* C23 witness: "!help" sent by the bot itself in a joined room, with
\* ignore_self set, is not answered
C23_Witness ==
    /\ HandledMessage
    /\ cfg.bot_filtering.ignore_self
    /\ lastMessage.room_state = "Joined"
    /\ lastMessage.event.msgtype = "text"
    /\ lastMessage.event.sender = BotUserId
    /\ lastMessage.event.body = HelpCommand
    /\ lastMessage.sends = <<>>
    /\ sent = <<>>

----------------------------------------------------------------------------
(* Specification of the two sending handlers: help requests and new joins *)
(* delivered in any order, each room.send() succeeding or failing         *)

InitSend ==
    /\ units = <<>>
    /\ nStripped = 0
    /\ lastStripped = NoEvent
    /\ cfg \in [help_text : {HelpText}, help_format : {"Plain", "Html"},
                bot_filtering : {BaseConfig.bot_filtering},
                join_detection : {BaseConfig.join_detection}]
    /\ nEvents = 0
    /\ lastMember = NoEvent
    /\ lastMessage = NoEvent
    /\ sent = <<>>
    /\ nNewJoin = 0
    /\ call = NoCall

SendMember ==
    \E e \in MixedMemberEvents, r \in Rooms :
        nEvents < MaxSends /\ OnRoomMember(e, r, "Joined")

SendMessage ==
    \E e \in MixedMessageEvents, r \in Rooms :
        nEvents < MaxSends /\ OnRoomMessage(e, r, "Joined")

NextSend ==
    \/ SendMember
    \/ SendMessage

SpecSend == InitSend /\ [][NextSend]_vars

----------------------------------------------------------------------------
(* Claims about send failures *)

LastReport(m) == m.reports[Len(m.reports)]

\* the handler made at most one room.send() call, and reported it if it failed
SentAtMostOnce(m, failure_report) ==
    /\ Len(m.sends) <= 1
    /\ (Len(m.sends) = 1 /\ ~m.sends[1].ok) =>
          (m.reports # <<>> /\ LastReport(m) = failure_report)
    /\ (Len(m.sends) = 1 /\ m.sends[1].ok) =>
          \A i \in 1..Len(m.reports) : m.reports[i] # failure_report

\* C12: a failed room.send() of a help response or of a welcome message is
\* reported and dropped: it is not attempted a second time, the handler
\* returns, and the events delivered afterwards are still handled, with the
\* sends they would have caused had the earlier send succeeded.
C12_FailedSendIsDropped ==
    /\ HandledMessage => SentAtMostOnce(lastMessage, "failed_to_send_help")
    /\ Handled => SentAtMostOnce(lastMember, "failed_to_send_welcome")
    /\ Len(sent) <= nEvents
    /\ nEvents < MaxSends => (ENABLED SendMember /\ ENABLED SendMessage)
    /\ (HandledMessage /\ BeginsWithHelp(lastMessage.event.body))
          => Len(lastMessage.sends) = 1
    /\ (Handled /\ lastMember.event.prev = "none")
          => (lastMember.outcome = "NewJoin" /\ Len(lastMember.sends) = 1)

\* C12 witness: a welcome and a help response both failed to be sent, and
\* the help request delivered after them was answered
C12_Witness ==
    /\ nEvents = 3
    /\ Len(sent) = 3
    /\ ~sent[1].ok /\ ~sent[2].ok /\ sent[3].ok
    /\ lastMember.kind = "member" /\ lastMember.sends = <<sent[1]>>
    /\ LastReport(lastMember) = "failed_to_send_welcome"
    /\ lastMessage.kind = "message" /\ lastMessage.sends = <<sent[3]>>

----------------------------------------------------------------------------
(* Specification of should_ignore_user: the arguments are drawn at the     *)
(* start and the function is applied to them                              *)

HelpBot == <<"@", "h", "e", "l", "p", "-", "b", "o", "t", ":", "x">>
HelpBotUpper == <<"@", "H", "E", "L", "P", "-", "B", "O", "T", ":", "x">>
HelpBotMixed == <<"@", "H", "e", "l", "p", "-", "B", "o", "t", ":", "x">>
OldUserUpper == <<"@", "O", "L", "D", ":", "x">>
AboutUser == <<"@", "a", "b", "o", "u", "t", ":", "x">>

FilterSenders ==
    {BotUserId, HelpBot, HelpBotUpper, HelpBotMixed, RoBotUser, NewUser, OldUser,
     OldUserUpper, AboutUser}

FilterBots == {BotUserId, HelpBot, HelpBotUpper}

FilterConfigs ==
    [ignore_self : BOOLEAN, ignore_bots : BOOLEAN,
     ignored_users : {{}, {OldUser}, {OldUser, HelpBot}, {BotUserId}}]

InitFilter ==
    /\ units = <<>>
    /\ nStripped = 0
    /\ lastStripped = NoEvent
    /\ cfg = BaseConfig
    /\ nEvents = 0
    /\ lastMember = NoEvent
    /\ lastMessage = NoEvent
    /\ sent = <<>>
    /\ nNewJoin = 0
    /\ call \in [fn : {"should_ignore_user"}, user_id : FilterSenders,
                 bot_user_id : FilterBots, config : FilterConfigs,
                 done : {FALSE}, result : {FALSE}]

CallShouldIgnoreUser ==
    /\ call.fn = "should_ignore_user"
    /\ ~call.done
    /\ call' = [call EXCEPT !.done = TRUE,
                            !.result = should_ignore_user(call.user_id, call.bot_user_id,
                                                          call.config)]
    /\ UNCHANGED <<retryVars, cfg, eventVars>>

NextFilter == CallShouldIgnoreUser

SpecFilter == InitFilter /\ [][NextFilter]_vars

----------------------------------------------------------------------------
(* Claims about should_ignore_user *)

Filtered == call.fn = "should_ignore_user" /\ call.done

\* the identities of the model whose lowercase form contains "bot"
BotLike == {HelpBot, HelpBotUpper, HelpBotMixed, RoBotUser}

\* C13: should_ignore_user is true exactly when (ignore_self and the sender
\* is the bot) or the sender is an exact member of ignored_users or
\* (ignore_bots and the lowercase sender contains "bot"); in particular a
\* listed sender is ignored with both flags off.
C13_IgnoreExactlyWhen ==
    Filtered =>
        /\ call.result <=>
              \/ (call.config.ignore_self /\ call.user_id = call.bot_user_id)
              \/ call.user_id \in call.config.ignored_users
              \/ (call.config.ignore_bots /\ call.user_id \in BotLike)
        /\ (call.user_id \in call.config.ignored_users) => call.result

\* C13 witness: a listed sender is ignored with both flags off
C13_Witness ==
    /\ Filtered
    /\ ~call.config.ignore_self /\ ~call.config.ignore_bots
    /\ call.config.ignored_users = {OldUser, HelpBot}
    /\ call.user_id = HelpBot
    /\ call.bot_user_id = BotUserId
    /\ call.result

\* C14: the bot's own identity is ignored whenever ignore_self is set,
\* whatever ignore_bots and ignored_users are; with ignore_self set,
\* ignore_bots off and an empty list no other sender is ignored.
C14_SelfIsIgnored ==
    Filtered =>
        /\ (call.config.ignore_self /\ call.user_id = call.bot_user_id) => call.result
        /\ (/\ call.config.ignore_self /\ ~call.config.ignore_bots
            /\ call.config.ignored_users = {}
            /\ call.user_id # call.bot_user_id) => ~call.result

\* C14 witness: the bot, not listed and with no "bot" in its name, is
\* ignored by the self rule although ignore_bots is set and a list is given
C14_Witness ==
    /\ Filtered
    /\ call.config.ignore_self /\ call.config.ignore_bots
    /\ call.config.ignored_users = {OldUser}
    /\ call.user_id = BotUserId /\ call.bot_user_id = BotUserId
    /\ call.result

\* C15: the bot-pattern check is case-insensitive: with ignore_bots set a
\* sender containing "bot" in any mix of cases is ignored, and a sender
\* whose lowercase form does not contain "bot" and that matches no other
\* rule is not.
C15_BotPatternIgnoresCase ==
    Filtered =>
        /\ (call.config.ignore_bots /\ call.user_id \in BotLike) => call.result
        /\ (/\ call.user_id \notin BotLike
            /\ call.user_id \notin call.config.ignored_users
            /\ ~(call.config.ignore_self /\ call.user_id = call.bot_user_id))
              => ~call.result

\* C15 witness: "@HELP-BOT:x" is ignored by the bot pattern alone
C15_Witness ==
    /\ Filtered
    /\ ~call.config.ignore_self /\ call.config.ignore_bots
    /\ call.config.ignored_users = {}
    /\ call.user_id = HelpBotUpper /\ call.bot_user_id = BotUserId
    /\ call.result

\* C16: with ignore_self off and ignore_bots set, the bot's own identity is
\* still ignored if its name contains "bot".
C16_SelfOffKeepsBotPattern ==
    (/\ Filtered
     /\ ~call.config.ignore_self /\ call.config.ignore_bots
     /\ call.user_id = call.bot_user_id
     /\ call.user_id \in BotLike) => call.result

\* C16 witness: the bot "@help-bot:x", not listed, ignore_self off
C16_Witness ==
    /\ Filtered
    /\ ~call.config.ignore_self /\ call.config.ignore_bots
    /\ call.config.ignored_users = {}
    /\ call.user_id = HelpBot /\ call.bot_user_id = HelpBot
    /\ call.result

----------------------------------------------------------------------------
(* Config::from_toml.  The TOML text is modelled by what toml::from_str    *)
(* makes of it: either a parse error or the root table; a table holds      *)
(* every key the code looks up, and a key the text does not give holds     *)
(* None.  Format strings are sequences of characters so that lowercasing   *)
(* is computed; the strings that are only copied are plain strings.        *)

\* Option::None, also the result of Value::get for a key that is not there
None == [t |-> "absent"]

\* toml::Value
TomlString(s) == [t |-> "str", v |-> s]
TomlBoolean(b) == [t |-> "bool", v |-> b]
TomlInteger(n) == [t |-> "int", v |-> n]
TomlArray(a) == [t |-> "arr", v |-> a]
TomlTable(r) == [t |-> "table", v |-> r]

\* Value::get(key): None unless the value is a table
Get(value, key) == IF value.t = "table" THEN value.v[key] ELSE None

\* Value::as_str, as_bool, as_integer, as_array: None for any other type
as_str(v) == IF v.t = "str" THEN v ELSE None
as_bool(v) == IF v.t = "bool" THEN v ELSE None
as_integer(v) == IF v.t = "int" THEN v ELSE None
as_array(v) == IF v.t = "arr" THEN v ELSE None

\* Option::unwrap_or
unwrap_or(opt, default) == IF opt.t = "absent" THEN default ELSE opt.v

\* arr.iter().filter_map(|v| v.as_str()).map(|s| s.to_string()).collect()
StringsOf(arr) ==
    LET strs == SelectSeq(arr, LAMBDA v : v.t = "str")
    IN [i \in 1..Len(strs) |-> strs[i].v]

\* a u64 is kept as four 16-bit limbs, least significant first
LimbBase == 65536
U64(n) == <<n % LimbBase, (n \div LimbBase) % LimbBase, 0, 0>>

\* `v as u64` for an i64 v: the same 64 bits, so 2^64 + v for a negative v,
\* which is the limbwise complement of -v - 1
as_u64(v) ==
    IF v >= 0 THEN U64(v)
    ELSE [i \in 1..4 |-> LimbBase - 1 - U64(-v - 1)[i]]

Ok(value) == [ok |-> TRUE, value |-> value]
Err(msg) == [ok |-> FALSE, msg |-> msg]

\* the characters of a string, written out (format!("{}", s))
RECURSIVE Display(_)
Display(s) == IF s = <<>> THEN "" ELSE s[1] \o Display(Tail(s))

\* HelpFormat::from_str that falls back to Plain for an unknown string
HelpFormat_from_str_Fallback(s) ==
    LET lower == to_lowercase(s)
    IN IF lower = <<"h", "t", "m", "l">> THEN Ok("Html")
       ELSE IF lower = <<"m", "a", "r", "k", "d", "o", "w", "n">> \/ lower = <<"m", "d">>
         THEN Ok("Markdown")
       ELSE Ok("Plain")

\* HelpFormat::from_str
HelpFormat_from_str(s) ==
    LET lower == to_lowercase(s)
    IN IF lower = <<"p", "l", "a", "i", "n">> THEN Ok("Plain")
       ELSE IF lower = <<"h", "t", "m", "l">> THEN Ok("Html")
       ELSE IF lower = <<"m", "a", "r", "k", "d", "o", "w", "n">> \/ lower = <<"m", "d">>
         THEN Ok("Markdown")
       ELSE Err("Invalid help format '" \o Display(s)
                \o "'. Valid options are: plain, html, markdown")

\* .and_then(|v| v.as_str()).map(HelpFormat::from_str).transpose():
\* Ok(None) without a string value, else the result of from_str
ParseFormat(value) ==
    IF as_str(value).t = "absent" THEN Ok(None)
    ELSE LET r == HelpFormat_from_str(value.v)
         IN IF r.ok THEN Ok([t |-> "some", v |-> r.value]) ELSE r

\* impl Default for BotFilteringConfig
DefaultBotFiltering ==
    [ignore_self |-> TRUE, ignore_bots |-> FALSE, ignored_users |-> <<>>]

DefaultWelcomeMessage == "Welcome to the room! Type !help for assistance."
DefaultWelcomeTimeout == 300

\* impl Default for JoinDetectionConfig
DefaultJoinDetection ==
    [enabled |-> TRUE, monitored_rooms |-> <<>>, send_welcome |-> FALSE,
     welcome_message |-> DefaultWelcomeMessage, welcome_format |-> "Plain",
     welcome_timeout_seconds |-> U64(DefaultWelcomeTimeout)]

\* parse_bot_filtering_config
parse_bot_filtering_config(config) ==
    LET bot_config == Get(config, "bot_filtering")
    IN IF bot_config.t # "absent"
         THEN Ok([ignore_self |-> unwrap_or(as_bool(Get(bot_config, "ignore_self")), TRUE),
                  ignore_bots |-> unwrap_or(as_bool(Get(bot_config, "ignore_bots")), FALSE),
                  ignored_users |->
                      LET arr == as_array(Get(bot_config, "ignored_users"))
                      IN IF arr.t = "absent" THEN <<>> ELSE StringsOf(arr.v)])
         ELSE Ok(DefaultBotFiltering)

\* parse_join_detection_config
parse_join_detection_config(config) ==
    LET join_config == Get(config, "join_detection")
    IN IF join_config.t # "absent"
         THEN LET welcome_format == ParseFormat(Get(join_config, "welcome_format"))
                  timeout == as_integer(Get(join_config, "welcome_timeout_seconds"))
                  rooms == as_array(Get(join_config, "monitored_rooms"))
              IN IF ~welcome_format.ok THEN welcome_format
                 ELSE Ok([enabled |-> unwrap_or(as_bool(Get(join_config, "enabled")), TRUE),
                          monitored_rooms |->
                              IF rooms.t = "absent" THEN <<>> ELSE StringsOf(rooms.v),
                          send_welcome |->
                              unwrap_or(as_bool(Get(join_config, "send_welcome")), FALSE),
                          welcome_message |->
                              unwrap_or(as_str(Get(join_config, "welcome_message")),
                                        DefaultWelcomeMessage),
                          welcome_format |-> unwrap_or(welcome_format.value, "Plain"),
                          welcome_timeout_seconds |->
                              IF timeout.t = "absent" THEN U64(DefaultWelcomeTimeout)
                              ELSE as_u64(timeout.v)])
         ELSE Ok(DefaultJoinDetection)

\* anyhow!("Missing '{}' in config file")
MissingField(field) == Err("Missing '" \o field \o "' in config file")

\* the required fields looked up with help_file first
RequiredFields_HelpFileFirst == <<"help_file", "homeserver", "username", "access_token">>

\* the fields read with ok_or_else(...)?, in the order the struct
\* expression evaluates them
RequiredFields == <<"homeserver", "username", "access_token", "help_file">>

\* Config::from_toml.  The `?` operators return the first error in
\* evaluation order; log_file and working_dir, evaluated between
\* access_token and help_file, cannot fail.
from_toml(toml_str) ==
    IF toml_str.parse_error # ""
      THEN Err("Failed to parse TOML: " \o toml_str.parse_error)
    ELSE
      LET config == TomlTable(toml_str.root)
          missing == {i \in 1..Len(RequiredFields) :
                         as_str(Get(config, RequiredFields[i])).t = "absent"}
          help_format == ParseFormat(Get(config, "help_format"))
          bot_filtering == parse_bot_filtering_config(config)
          join_detection == parse_join_detection_config(config)
      IN IF missing # {}
           THEN MissingField(RequiredFields[CHOOSE i \in missing :
                                               \A j \in missing : i <= j])
         ELSE IF ~help_format.ok THEN help_format
         ELSE IF ~bot_filtering.ok THEN bot_filtering
         ELSE IF ~join_detection.ok THEN join_detection
         ELSE Ok([homeserver |-> Get(config, "homeserver").v,
                  username |-> Get(config, "username").v,
                  access_token |-> Get(config, "access_token").v,
                  log_file |-> unwrap_or(as_str(Get(config, "log_file")), "bot.log"),
                  working_dir |->
                      unwrap_or(as_str(Get(config, "working_directory")), "."),
                  help_file |-> Get(config, "help_file").v,
                  help_format |-> unwrap_or(help_format.value, "Plain"),
                  bot_filtering |-> bot_filtering.value,
                  join_detection |-> join_detection.value])

----------------------------------------------------------------------------
(* Specification of Config::from_toml: the configuration text is drawn at  *)
(* the start and the function is applied to it                             *)

\* format strings with the format each one stands for
FormatTable ==
    {[s |-> <<"p", "l", "a", "i", "n">>, text |-> "plain", format |-> "Plain"],
     [s |-> <<"P", "l", "a", "i", "n">>, text |-> "Plain", format |-> "Plain"],
     [s |-> <<"P", "L", "A", "I", "N">>, text |-> "PLAIN", format |-> "Plain"],
     [s |-> <<"h", "t", "m", "l">>, text |-> "html", format |-> "Html"],
     [s |-> <<"H", "T", "M", "L">>, text |-> "HTML", format |-> "Html"],
     [s |-> <<"H", "t", "m", "l">>, text |-> "Html", format |-> "Html"],
     [s |-> <<"r", "t", "f">>, text |-> "rtf", format |-> "invalid"],
     [s |-> <<"m", "a", "r", "k", "d", "o", "w", "n">>, text |-> "markdown", format |-> "Markdown"],
     [s |-> <<"M", "a", "r", "k", "D", "o", "w", "n">>, text |-> "MarkDown", format |-> "Markdown"],
     [s |-> <<"m", "d">>, text |-> "md", format |-> "Markdown"],
     [s |-> <<"M", "D">>, text |-> "MD", format |-> "Markdown"],
     [s |-> <<"x", "m", "l">>, text |-> "xml", format |-> "invalid"],
     [s |-> <<"t", "e", "x", "t">>, text |-> "text", format |-> "invalid"],
     [s |-> <<"p", "l", "a", "i", "n", " ">>, text |-> "plain ", format |-> "invalid"],
     [s |-> <<>>, text |-> "", format |-> "invalid"]}

FormatStrings == {TomlString(f.s) : f \in FormatTable}

RootKeys ==
    {"homeserver", "username", "access_token", "log_file", "working_directory",
     "help_file", "help_format", "bot_filtering", "join_detection"}

\* a complete minimal configuration (test_minimal_config_parsing)
MinimalRoot ==
    [k \in RootKeys |->
        CASE k = "homeserver" -> TomlString("https://matrix.x")
          [] k = "username" -> TomlString("@help:x")
          [] k = "access_token" -> TomlString("secret")
          [] k = "help_file" -> TomlString("help.md")
          [] OTHER -> None]

\* texts that vary the required fields, well-formed or not
RequiredRoots ==
    {[MinimalRoot EXCEPT !.homeserver = h, !.username = u, !.access_token = a,
                         !.help_file = f, !.help_format = hf] :
        h \in {None, TomlString("https://matrix.x"), TomlInteger(1)},
        u \in {None, TomlString("@help:x"), TomlBoolean(TRUE)},
        a \in {None, TomlString("secret"), TomlInteger(1)},
        f \in {None, TomlString("help.md"), TomlInteger(1)},
        hf \in {None, TomlString(<<"x", "m", "l">>)}}

\* texts that vary the optional top-level keys
OptionalRoots ==
    {[MinimalRoot EXCEPT !.log_file = l, !.working_directory = w, !.help_format = hf] :
        l \in {None, TomlString("my.log"), TomlInteger(1)},
        w \in {None, TomlString("/var/bot"), TomlBoolean(FALSE)},
        hf \in {None, TomlInteger(1)} \cup FormatStrings}

UserLists ==
    {None, TomlString("@old:x"), TomlArray(<<>>), TomlArray(<<TomlString("@old:x")>>),
     TomlArray(<<TomlString("@spam:x"), TomlString("@old:x")>>),
     TomlArray(<<TomlString("@old:x"), TomlInteger(5)>>)}

\* texts that vary the [bot_filtering] section
BotFilteringRoots ==
    {[MinimalRoot EXCEPT !.bot_filtering = b] :
        b \in {TomlString("on")} \cup
              {TomlTable(t) : t \in [ignore_self : {None, TomlBoolean(TRUE),
                                                    TomlBoolean(FALSE), TomlString("yes")},
                                     ignore_bots : {None, TomlBoolean(TRUE),
                                                    TomlBoolean(FALSE), TomlInteger(1)},
                                     ignored_users : UserLists]}}

RoomLists ==
    {None, TomlString("!a:x"), TomlArray(<<TomlString("!a:x"), TomlString("!b:x")>>),
     TomlArray(<<TomlInteger(7), TomlString("!b:x")>>)}

Timeouts ==
    {None, TomlString("60"), TomlInteger(0), TomlInteger(60), TomlInteger(70000),
     TomlInteger(-1), TomlInteger(-65537)}

\* texts that vary the [join_detection] section
JoinDetectionRoots ==
    {[MinimalRoot EXCEPT !.join_detection = j, !.help_format = hf] :
        hf \in {None, TomlString(<<"H", "T", "M", "L">>), TomlString(<<"x", "m", "l">>)},
        j \in {TomlBoolean(TRUE)} \cup
              {TomlTable(t) :
                  t \in [enabled : {None, TomlBoolean(FALSE), TomlString("no")},
                         monitored_rooms : RoomLists,
                         send_welcome : {None, TomlBoolean(TRUE), TomlInteger(1)},
                         welcome_message : {None, TomlString("Hi"), TomlInteger(1)},
                         welcome_format : {None, TomlInteger(1),
                                           TomlString(<<"p", "l", "a", "i", "n">>),
                                           TomlString(<<"H", "t", "m", "l">>),
                                           TomlString(<<"M", "D">>),
                                           TomlString(<<"r", "t", "f">>)},
                         welcome_timeout_seconds : Timeouts]}}

ParseErrors == {"", "invalid array at line 4"}

TomlTexts ==
    [parse_error : ParseErrors, root : RequiredRoots]
      \cup [parse_error : {""},
            root : OptionalRoots \cup BotFilteringRoots \cup JoinDetectionRoots]

InitConfig ==
    /\ units = <<>>
    /\ nStripped = 0
    /\ lastStripped = NoEvent
    /\ cfg = BaseConfig
    /\ nEvents = 0
    /\ lastMember = NoEvent
    /\ lastMessage = NoEvent
    /\ sent = <<>>
    /\ nNewJoin = 0
    /\ call \in [fn : {"from_toml"}, toml_str : TomlTexts, done : {FALSE},
                 result : {None}]

CallFromToml ==
    /\ call.fn = "from_toml"
    /\ ~call.done
    /\ call' = [call EXCEPT !.done = TRUE, !.result = from_toml(call.toml_str)]
    /\ UNCHANGED <<retryVars, cfg, eventVars>>

NextConfig == CallFromToml

SpecConfig == InitConfig /\ [][NextConfig]_vars

----------------------------------------------------------------------------
(* Claims about Config::from_toml *)

Parsed == call.fn = "from_toml" /\ call.done

WellFormed == call.toml_str.parse_error = ""

Given(key) == call.toml_str.root[key]

HasString(key) == Given(key).t = "str"

\* the message of HelpFormat::from_str for a string it does not know
InvalidFormat(text) ==
    "Invalid help format '" \o text \o "'. Valid options are: plain, html, markdown"

IsError(r, msg) == ~r.ok /\ DOMAIN r = {"ok", "msg"} /\ r.msg = msg

\* C17: from_toml returns an error and no Config when a required field is
\* missing; the message is "Missing '<field>' in config file" for the first
\* field, in the order homeserver, username, access_token, help_file, that
\* has no string value (absent, or given with another type, which the code
\* does not tell apart); a text that does not parse is reported as "Failed
\* to parse TOML" whatever fields it has; with all four given no field is
\* reported missing.
C17_MissingRequiredField ==
    Parsed =>
        LET r == call.result
        IN /\ ~WellFormed
                => IsError(r, "Failed to parse TOML: invalid array at line 4")
           /\ (WellFormed /\ ~HasString("homeserver"))
                => IsError(r, "Missing 'homeserver' in config file")
           /\ (WellFormed /\ HasString("homeserver") /\ ~HasString("username"))
                => IsError(r, "Missing 'username' in config file")
           /\ (WellFormed /\ HasString("homeserver") /\ HasString("username")
                 /\ ~HasString("access_token"))
                => IsError(r, "Missing 'access_token' in config file")
           /\ (WellFormed /\ HasString("homeserver") /\ HasString("username")
                 /\ HasString("access_token") /\ ~HasString("help_file"))
                => IsError(r, "Missing 'help_file' in config file")
           /\ (\E k \in {"homeserver", "username", "access_token", "help_file"} :
                   Given(k).t = "absent") => ~r.ok
           /\ (WellFormed /\ HasString("homeserver") /\ HasString("username")
                 /\ HasString("access_token") /\ HasString("help_file"))
                => (r.ok \/ \E f \in FormatTable : IsError(r, InvalidFormat(f.text)))

\* C17 witness: username and help_file are missing and the format is
\* invalid; the username is the one reported
C17_Witness ==
    /\ Parsed
    /\ WellFormed
    /\ Given("homeserver") = TomlString("https://matrix.x")
    /\ Given("username") = None
    /\ Given("access_token") = TomlString("secret")
    /\ Given("help_file") = None
    /\ Given("help_format") = TomlString(<<"x", "m", "l">>)
    /\ call.result = Err("Missing 'username' in config file")

\* a key of a section of the text; None when the section or the key is absent
GivenIn(section, key) == Get(Given(section), key)

\* the configuration returned for a text that is accepted
Returned == call.result.value

\* every optional key that is absent, at the top level or in a section that
\* is present, and every key of an absent section, has its default
DefaultsApplied ==
    /\ Given("log_file").t = "absent" => Returned.log_file = "bot.log"
    /\ Given("working_directory").t = "absent" => Returned.working_dir = "."
    /\ Given("help_format").t = "absent" => Returned.help_format = "Plain"
    /\ GivenIn("bot_filtering", "ignore_self").t = "absent"
          => Returned.bot_filtering.ignore_self = TRUE
    /\ GivenIn("bot_filtering", "ignore_bots").t = "absent"
          => Returned.bot_filtering.ignore_bots = FALSE
    /\ GivenIn("bot_filtering", "ignored_users").t = "absent"
          => Returned.bot_filtering.ignored_users = <<>>
    /\ GivenIn("join_detection", "enabled").t = "absent"
          => Returned.join_detection.enabled = TRUE
    /\ GivenIn("join_detection", "monitored_rooms").t = "absent"
          => Returned.join_detection.monitored_rooms = <<>>
    /\ GivenIn("join_detection", "send_welcome").t = "absent"
          => Returned.join_detection.send_welcome = FALSE
    /\ GivenIn("join_detection", "welcome_message").t = "absent"
          => Returned.join_detection.welcome_message
                = "Welcome to the room! Type !help for assistance."
    /\ GivenIn("join_detection", "welcome_format").t = "absent"
          => Returned.join_detection.welcome_format = "Plain"
    /\ GivenIn("join_detection", "welcome_timeout_seconds").t = "absent"
          => Returned.join_detection.welcome_timeout_seconds = <<300, 0, 0, 0>>

\* a string or boolean key given with that type is returned as given
ScalarIsReturned(given, type, returned) == given.t = type => returned = given.v

ScalarsAreReturned ==
    /\ ScalarIsReturned(Given("homeserver"), "str", Returned.homeserver)
    /\ ScalarIsReturned(Given("username"), "str", Returned.username)
    /\ ScalarIsReturned(Given("access_token"), "str", Returned.access_token)
    /\ ScalarIsReturned(Given("help_file"), "str", Returned.help_file)
    /\ ScalarIsReturned(Given("log_file"), "str", Returned.log_file)
    /\ ScalarIsReturned(Given("working_directory"), "str", Returned.working_dir)
    /\ ScalarIsReturned(GivenIn("bot_filtering", "ignore_self"), "bool",
                        Returned.bot_filtering.ignore_self)
    /\ ScalarIsReturned(GivenIn("bot_filtering", "ignore_bots"), "bool",
                        Returned.bot_filtering.ignore_bots)
    /\ ScalarIsReturned(GivenIn("join_detection", "enabled"), "bool",
                        Returned.join_detection.enabled)
    /\ ScalarIsReturned(GivenIn("join_detection", "send_welcome"), "bool",
                        Returned.join_detection.send_welcome)
    /\ ScalarIsReturned(GivenIn("join_detection", "welcome_message"), "str",
                        Returned.join_detection.welcome_message)

\* an array that is given is returned element by element
ArrayIsReturned(given, returned) ==
    given.t = "arr" =>
        /\ Len(returned) = Len(given.v)
        /\ \A i \in 1..Len(given.v) :
              given.v[i].t = "str" /\ returned[i] = given.v[i].v

\* an integer that is given is the number returned
IntegerIsReturned(given, returned) ==
    given.t = "int" =>
        /\ given.v >= 0
        /\ returned = <<given.v % 65536, given.v \div 65536, 0, 0>>

\* C18: for a text that is accepted, every absent optional key has its
\* default (log_file "bot.log", working_dir ".", formats Plain, ignore_self
\* true, ignore_bots false, lists empty, enabled true, send_welcome false,
\* the standard welcome message, timeout 300), in an absent section and in
\* a present one alike, and every key that is given is returned with its
\* given value.
C18_DefaultsAndGivenValues ==
    (Parsed /\ call.result.ok) =>
        /\ DefaultsApplied
        /\ ScalarsAreReturned
        /\ ArrayIsReturned(GivenIn("bot_filtering", "ignored_users"),
                           Returned.bot_filtering.ignored_users)
        /\ ArrayIsReturned(GivenIn("join_detection", "monitored_rooms"),
                           Returned.join_detection.monitored_rooms)
        /\ IntegerIsReturned(GivenIn("join_detection", "welcome_timeout_seconds"),
                             Returned.join_detection.welcome_timeout_seconds)

\* what holds of the values given: strings and booleans are returned as
\* given, an array loses its elements that are not strings, an integer is
\* returned modulo 2^64, and a key given with another type has its default
AcceptedValues ==
    (Parsed /\ call.result.ok) =>
        /\ DefaultsApplied
        /\ ScalarsAreReturned
        /\ \A k \in {"ignore_self", "ignore_bots"} :
              GivenIn("bot_filtering", k).t \notin {"absent", "bool"}
                 => Returned.bot_filtering[k] = DefaultBotFiltering[k]
        /\ GivenIn("join_detection", "monitored_rooms")
              = TomlArray(<<TomlInteger(7), TomlString("!b:x")>>)
              => Returned.join_detection.monitored_rooms = <<"!b:x">>
        /\ GivenIn("bot_filtering", "ignored_users")
              = TomlArray(<<TomlString("@old:x"), TomlInteger(5)>>)
              => Returned.bot_filtering.ignored_users = <<"@old:x">>
        /\ LET t == GivenIn("join_detection", "welcome_timeout_seconds")
               n == Returned.join_detection.welcome_timeout_seconds
           IN /\ t = TomlInteger(70000) => n = <<4464, 1, 0, 0>>
              /\ t = TomlInteger(-1) => n = <<65535, 65535, 65535, 65535>>
              /\ t = TomlInteger(-65537) => n = <<65535, 65534, 65535, 65535>>
              /\ t = TomlString("60") => n = <<300, 0, 0, 0>>

FormatOf(value) == CHOOSE f \in FormatTable : f.s = value.v

\* C19: with the required fields given, a help_format or welcome_format
\* string is read without regard to case: a spelling of "plain" gives
\* Plain, of "html" Html, of "markdown" or "md" Markdown; any other string
\* makes from_toml fail with "Invalid help format '<string>'. ..." and is
\* never replaced by the default; help_format is judged first.
C19_FormatIgnoresCaseOrFails ==
    (/\ Parsed /\ WellFormed
     /\ \A k \in {"homeserver", "username", "access_token", "help_file"} : HasString(k))
    =>
        LET r == call.result
            hf == Given("help_format")
            wf == GivenIn("join_detection", "welcome_format")
            hfInvalid == hf.t = "str" /\ FormatOf(hf).format = "invalid"
            wfInvalid == wf.t = "str" /\ FormatOf(wf).format = "invalid"
        IN /\ hfInvalid => IsError(r, InvalidFormat(FormatOf(hf).text))
           /\ (~hfInvalid /\ wfInvalid) => IsError(r, InvalidFormat(FormatOf(wf).text))
           /\ (~hfInvalid /\ ~wfInvalid) => r.ok
           /\ (r.ok /\ hf.t = "str") => r.value.help_format = FormatOf(hf).format
           /\ (r.ok /\ wf.t = "str")
                 => r.value.join_detection.welcome_format = FormatOf(wf).format

\* C19 witness: help_format "HTML" is accepted and welcome_format "rtf" is
\* refused
C19_Witness ==
    /\ Parsed /\ WellFormed
    /\ Given("help_format") = TomlString(<<"H", "T", "M", "L">>)
    /\ GivenIn("join_detection", "welcome_format") = TomlString(<<"r", "t", "f">>)
    /\ call.result
          = Err("Invalid help format 'rtf'. Valid options are: plain, html, markdown")

----------------------------------------------------------------------------
(* The delay of a retry task over its life *)

\* the delay announced at each failed join attempt of the loop, in order
RetryDelays(t) ==
    LET s == SelectSeq(t, LAMBDA e : e.ev = "retrying_in") IN [i \in 1..Len(s) |-> s[i].n]

\* the delay announced at the first failed attempt is 2 and at every later
\* one twice that of the one before; the task holds the delay last
\* announced while it sleeps and twice that delay from then on
DelayDoubledPerFailure ==
    \A i \in DOMAIN units :
        LET u == units[i]
            r == RetryDelays(u.trace)
            n == Len(r)
        IN /\ n > 0 => r[1] = 2
           /\ \A j \in 2..n : r[j] = 2 * r[j - 1]
           /\ u.delay = IF n = 0 THEN 2
                        ELSE IF u.pc = "sleep" THEN r[n] ELSE 2 * r[n]

\* a step leaves the delay of every task as it is or doubles it
DelayOnlyDoubles ==
    \A i \in DOMAIN units :
        units'[i].delay = units[i].delay \/ units'[i].delay = 2 * units[i].delay

\* C20: within one retry task the delay starts at 2 and is changed only by
\* doubling, once after each failed join attempt of the loop and before the
\* next attempt: it is never decreased, reset or kept for the next attempt.
C20_DelayStartsAtTwoAndDoubles ==
    /\ []DelayDoubledPerFailure
    /\ [][DelayOnlyDoubles]_vars

\* C20 witness: a task about to make its fourth attempt after three failures
C20_Witness ==
    \E i \in DOMAIN units :
        /\ units[i].pc = "join"
        /\ RetryDelays(units[i].trace) = <<2, 4, 8>>
        /\ units[i].delay = 16

----------------------------------------------------------------------------
(* The retry tasks under the assumption that every room.join() call and    *)
(* every sleep returns: a task that can take its next step takes it        *)

MaxFairInvites == 1

\* the next step of task i, whichever it is
TaskStep(i) ==
    /\ i \in DOMAIN units
    /\ (UnitJoin(i) \/ UnitSleep(i) \/ UnitFinalJoin(i))

NextRetryFair ==
    \/ \E e \in StrippedEvents, r \in Rooms :
          nStripped < MaxFairInvites /\ OnStrippedStateMember(e, r)
    \/ \E i \in DOMAIN units : UnitJoin(i)
    \/ \E i \in DOMAIN units : UnitSleep(i)
    \/ \E i \in DOMAIN units : UnitFinalJoin(i)

SpecRetryFair ==
    /\ InitRetry
    /\ [][NextRetryFair]_vars
    /\ \A i \in 1..MaxFairInvites : WF_vars(TaskStep(i))

\* some room.join() call of the task has succeeded
Joined(u) == Reported(u.trace, "join_ok")

\* the task has given up: "Can't join room ... after multiple retries"
Abandoned(u) == Reported(u.trace, "abandoned")

\* C22: every retry task eventually ends, having joined the room or given
\* up, whatever the join calls return, provided each join call and each
\* sleep returns.
C22_EveryTaskTerminates ==
    \A i \in 1..MaxFairInvites :
        (i \in DOMAIN units)
           ~> (/\ i \in DOMAIN units
               /\ units[i].pc = "done"
               /\ (Joined(units[i]) \/ Abandoned(units[i])))

\* C22 witness: a task has ended after failing until the ceiling
C22_Witness ==
    \E i \in DOMAIN units :
        /\ units[i].pc = "done"
        /\ Abandoned(units[i])
        /\ ~Joined(units[i])

\* C27: no retry task emits both "Can't join room ... after multiple
\* retries" and "Successfully joined room".
C27_ReportsAreExclusive ==
    \A i \in DOMAIN units :
        ~(Reported(units[i].trace, "abandoned") /\ Reported(units[i].trace, "success"))

\* C28: a task one of whose room.join() calls has succeeded eventually emits
\* "Successfully joined room", whatever its other join calls return.
C28_SuccessIsReported ==
    \A i \in 1..MaxFairInvites :
        (i \in DOMAIN units /\ Joined(units[i]))
           ~> (i \in DOMAIN units /\ Reported(units[i].trace, "success"))

----------------------------------------------------------------------------
(* What starts a retry task *)

\* the step handles a stripped membership event
StrippedHandled == nStripped' = nStripped + 1

\* the event handled by the step is an invitation of the bot itself
OwnInvitation ==
    lastStripped'.state_key = BotUserId /\ lastStripped'.membership = "invite"

\* the step adds one task, for the room of the event, that has made no join
\* call yet, and leaves the other tasks as they are
OneTaskSpawned ==
    /\ Len(units') = Len(units) + 1
    /\ SubSeq(units', 1, Len(units)) = units
    /\ units'[Len(units')].room = lastStripped'.room
    /\ units'[Len(units')].pc = "join"
    /\ units'[Len(units')].trace = <<>>

\* C21: a retry task is created, and through it room.join() called, only by
\* the handling of a stripped membership event that is an invitation of the
\* bot itself; the handling of an invitation of another user, or of another
\* membership of the bot, creates no task and makes no join call.
C21_OnlyOwnInvitationStartsRetry ==
    [][/\ Len(units') # Len(units) => (StrippedHandled /\ OwnInvitation)
       /\ (StrippedHandled /\ OwnInvitation) => OneTaskSpawned
       /\ (StrippedHandled /\ ~OwnInvitation) => units' = units]_vars

\* C21 witness: the bot's invitation started a task that has called join,
\* and an invitation of another user handled afterwards started none
C21_Witness ==
    /\ nStripped = 2
    /\ lastStripped.state_key = NewUser /\ lastStripped.membership = "invite"
    /\ Len(units) = 1
    /\ JoinCalls(units[1].trace) >= 1

----------------------------------------------------------------------------
(* Two runs of on_room_member side by side: the same membership events are *)
(* handled under two configurations that differ only in                    *)
(* welcome_timeout_seconds.  The first run is the bot of the other          *)
(* specifications; the second is kept in `call` and handles each event      *)
(* right after the first, the room answering its send as it answered the   *)
(* first run's.                                                             *)

MaxTwinEvents == 2

WelcomeTimeouts == {0, 300, 600}

TwinConfigs ==
    [enabled : BOOLEAN, monitored_rooms : {{}, {"!a:x"}}, send_welcome : BOOLEAN,
     welcome_message : {WelcomeShort}, welcome_format : {"Plain", "Html"},
     welcome_timeout_seconds : WelcomeTimeouts]

InitTwin ==
    /\ units = <<>>
    /\ nStripped = 0
    /\ lastStripped = NoEvent
    /\ cfg \in [help_text : {HelpText}, help_format : {"Plain"},
                bot_filtering : {BaseConfig.bot_filtering},
                join_detection : TwinConfigs]
    /\ nEvents = 0
    /\ lastMember = NoEvent
    /\ lastMessage = NoEvent
    /\ sent = <<>>
    /\ nNewJoin = 0
    /\ \E t \in WelcomeTimeouts \ {cfg.join_detection.welcome_timeout_seconds} :
          call = [fn |-> "on_room_member",
                  join_detection |->
                      [cfg.join_detection EXCEPT !.welcome_timeout_seconds = t],
                  nEvents |-> 0, nNewJoin |-> 0, sent |-> <<>>,
                  outcome |-> "none", reports |-> <<>>]

\* the first run handles the next event
FirstMember ==
    \E e \in MemberEvents, r \in Rooms, rs \in RoomStates :
        /\ nEvents < MaxTwinEvents
        /\ call.nEvents = nEvents
        /\ OnRoomMember(e, r, rs)

\* the second run handles the event the first run has just handled:
\* on_room_member(event, room, &join_detection_config) with its own
\* configuration
SecondMember ==
    LET jd == call.join_detection
        event == lastMember.event
        room == lastMember.room
        outcome == Classify(event, room, lastMember.room_state, jd)
    IN  /\ call.nEvents < nEvents
        /\ \E send_ok \in (IF lastMember.sends # <<>>
                             THEN {lastMember.sends[1].ok}
                             ELSE WelcomeSendResults(outcome, jd)) :
              LET sends == WelcomeSends(event, room, outcome, jd, send_ok) IN
              call' = [call EXCEPT
                          !.nEvents = @ + 1,
                          !.nNewJoin = IF outcome = "NewJoin" THEN @ + 1 ELSE @,
                          !.sent = @ \o sends,
                          !.outcome = outcome,
                          !.reports = MemberReports(outcome, sends)]
        /\ UNCHANGED <<retryVars, cfg, eventVars>>

NextTwin == FirstMember \/ SecondMember

SpecTwin == InitTwin /\ [][NextTwin]_vars

\* both runs have handled the same events
InStep == call.nEvents = nEvents

----------------------------------------------------------------------------
(* Startup: main and run_bot up to the continuous sync.  `call` holds the  *)
(* position of main, its inputs (the command line flag, whether the files  *)
(* can be read, the configuration text) and what it has built so far; cfg  *)
(* is what the handlers are given when they are registered.               *)

MaxStartupEvents == 1
MaxEarlyEvents == 1

\* cfg before the handlers exist
NoConfig == [registered |-> FALSE]

\* a configuration text that turns the welcome on
WelcomingRoot ==
    [MinimalRoot EXCEPT
        !.help_format = TomlString(<<"H", "T", "M", "L">>),
        !.join_detection =
            TomlTable([enabled |-> None, monitored_rooms |-> None,
                       send_welcome |-> TomlBoolean(TRUE),
                       welcome_message |-> TomlString(WelcomeShort),
                       welcome_format |-> None,
                       welcome_timeout_seconds |-> None])]

StartupTexts ==
    {[parse_error |-> "", root |-> MinimalRoot],
     [parse_error |-> "", root |-> WelcomingRoot],
     [parse_error |-> "", root |-> [MinimalRoot EXCEPT !.access_token = None]],
     [parse_error |-> "", root |-> [MinimalRoot EXCEPT !.help_file = None]],
     [parse_error |-> "",
      root |-> [MinimalRoot EXCEPT !.help_format = TomlString(<<"x", "m", "l">>)]],
     [parse_error |-> "invalid array at line 4", root |-> MinimalRoot]}

\* the texts of StartupTexts that are complete and well-formed
GoodTexts ==
    {[parse_error |-> "", root |-> MinimalRoot],
     [parse_error |-> "", root |-> WelcomingRoot]}

InitStartup ==
    /\ units = <<>>
    /\ nStripped = 0
    /\ lastStripped = NoEvent
    /\ cfg = NoConfig
    /\ nEvents = 0
    /\ lastMember = NoEvent
    /\ lastMessage = NoEvent
    /\ sent = <<>>
    /\ nNewJoin = 0
    /\ call \in [fn : {"main"}, pc : {"read_config"}, daemonize : BOOLEAN,
                 config_readable : BOOLEAN, toml_str : StartupTexts,
                 help_readable : BOOLEAN, config : {None}, help_text : {None},
                 handlers : {{}}, received : {0}, error : {""}]

\* `?` on an Err: main returns the error and the process ends
Exit(msg) == [call EXCEPT !.pc = "exited", !.error = msg]

\* fs::read_to_string(&cli.config).with_context(...)?
ReadConfig ==
    /\ call.pc = "read_config"
    /\ call' = IF call.config_readable
                 THEN [call EXCEPT !.pc = "from_toml"]
                 ELSE Exit("Failed to read config file")
    /\ UNCHANGED <<retryVars, cfg, eventVars>>

\* Config::from_toml(&config_content).context("Failed to parse config")?
ParseConfig ==
    /\ call.pc = "from_toml"
    /\ LET config == from_toml(call.toml_str)
       IN call' = IF config.ok
                    THEN [call EXCEPT !.pc = "daemonize", !.config = config]
                    ELSE Exit("Failed to parse config")
    /\ UNCHANGED <<retryVars, cfg, eventVars>>

\* if cli.daemonize { open the log file; daemonize.start()?; }
Daemonize ==
    /\ call.pc = "daemonize"
    /\ \E ok \in (IF call.daemonize THEN BOOLEAN ELSE {TRUE}) :
          call' = IF ok THEN [call EXCEPT !.pc = "connect"]
                  ELSE Exit("Failed to daemonize")
    /\ UNCHANGED <<retryVars, cfg, eventVars>>

\* Client::builder()...build().await?; UserId::parse(...)?; restore_session(...).await?
Connect ==
    /\ call.pc = "connect"
    /\ \E ok \in BOOLEAN :
          call' = IF ok THEN [call EXCEPT !.pc = "sync_once"]
                  ELSE Exit("Failed to log in")
    /\ UNCHANGED <<retryVars, cfg, eventVars>>

\* an event of the initial sync: the client receives it and, no handler
\* being registered yet, nothing handles it
EarlyEvent ==
    /\ call.pc = "sync_once"
    /\ call.received < MaxEarlyEvents
    /\ call' = [call EXCEPT !.received = @ + 1]
    /\ UNCHANGED <<retryVars, cfg, eventVars>>

\* client.sync_once(SyncSettings::default()).await?
InitialSync ==
    /\ call.pc = "sync_once"
    /\ \E ok \in BOOLEAN :
          call' = IF ok THEN [call EXCEPT !.pc = "load_help_text"]
                  ELSE Exit("Initial sync failed")
    /\ UNCHANGED <<retryVars, cfg, eventVars>>

\* LoadHelpText that goes on with an empty help text when the file cannot
\* be read
LoadHelpText_Lenient ==
    /\ call.pc = "load_help_text"
    /\ call' = IF call.help_readable
                 THEN [call EXCEPT !.pc = "add_event_handler",
                                   !.help_text = TomlString(HelpText)]
                 ELSE [call EXCEPT !.pc = "add_event_handler",
                                   !.help_text = TomlString(<<>>)]
    /\ UNCHANGED <<retryVars, cfg, eventVars>>

\* load_help_text(&config.help_file).context("Failed to load help text")?
LoadHelpText ==
    /\ call.pc = "load_help_text"
    /\ call' = IF call.help_readable
                 THEN [call EXCEPT !.pc = "add_event_handler",
                                   !.help_text = TomlString(HelpText)]
                 ELSE Exit("Failed to load help text")
    /\ UNCHANGED <<retryVars, cfg, eventVars>>

\* the elements of a Vec, for a handler that only asks whether one is in it
ElementsOf(vec) == {vec[i] : i \in 1..Len(vec)}

\* what the three handlers capture: help_text, config.help_format,
\* config.bot_filtering.clone() and config.join_detection.clone()
HandlerConfig(config, help_text) ==
    [help_text |-> help_text,
     help_format |-> config.help_format,
     bot_filtering |->
        [ignore_self |-> config.bot_filtering.ignore_self,
         ignore_bots |-> config.bot_filtering.ignore_bots,
         ignored_users |-> ElementsOf(config.bot_filtering.ignored_users)],
     join_detection |->
        [enabled |-> config.join_detection.enabled,
         monitored_rooms |-> ElementsOf(config.join_detection.monitored_rooms),
         send_welcome |-> config.join_detection.send_welcome,
         welcome_message |-> config.join_detection.welcome_message,
         welcome_format |-> config.join_detection.welcome_format,
         welcome_timeout_seconds |-> config.join_detection.welcome_timeout_seconds]]

\* the three client.add_event_handler(...) calls
RegisterHandlers ==
    /\ call.pc = "add_event_handler"
    /\ cfg' = HandlerConfig(call.config.value, call.help_text.v)
    /\ call' = [call EXCEPT !.pc = "sync",
                            !.handlers = {"on_room_message", "on_stripped_state_member",
                                          "on_room_member"}]
    /\ UNCHANGED <<retryVars, eventVars>>

\* client.sync(settings).await: events are dispatched to the handlers
Syncing == call.pc = "sync" /\ nEvents + nStripped < MaxStartupEvents

SyncInvitation ==
    \E r \in Rooms : Syncing /\ OnStrippedStateMember(Invitation, r)

SyncMessage ==
    \E e \in MixedMessageEvents : Syncing /\ OnRoomMessage(e, MixedRoom, "Joined")

SyncMember ==
    \E e \in MixedMemberEvents : Syncing /\ OnRoomMember(e, MixedRoom, "Joined")

\* a step of a retry task of the running bot
SyncTask ==
    /\ call.pc = "sync"
    /\ \E i \in DOMAIN units : UnitJoin(i) \/ UnitSleep(i) \/ UnitFinalJoin(i)

\* client.sync(settings).await? returns an error: the process ends
SyncFails ==
    /\ call.pc = "sync"
    /\ call' = Exit("Sync failed")
    /\ UNCHANGED <<retryVars, cfg, eventVars>>

NextStartup ==
    \/ ReadConfig
    \/ ParseConfig
    \/ Daemonize
    \/ Connect
    \/ EarlyEvent
    \/ InitialSync
    \/ LoadHelpText
    \/ RegisterHandlers
    \/ SyncInvitation
    \/ SyncMessage
    \/ SyncMember
    \/ SyncTask
    \/ SyncFails

SpecStartup == InitStartup /\ [][NextStartup]_vars

\* the bot has operated: a handler exists, an event was handled, a message
\* was sent or a join attempted
Operated ==
    \/ call.handlers # {}
    \/ nEvents > 0 \/ nStripped > 0
    \/ sent # <<>>
    \/ units # <<>>

\* C26: the bot operates only after the configuration was parsed and the
\* help text loaded; when the configuration text is not accepted or the
\* help file cannot be read, main ends with that error and has registered
\* no handler, handled no event, sent nothing and attempted no join.
C26_StartupErrorsAreFatal ==
    /\ Operated => (/\ call.toml_str \in GoodTexts
                    /\ call.config_readable /\ call.help_readable
                    /\ call.config.ok
                    /\ call.help_text = TomlString(HelpText))
    /\ (call.toml_str \notin GoodTexts /\ call.pc \notin {"read_config", "from_toml"})
          => (/\ call.pc = "exited"
              /\ call.error \in {"Failed to read config file", "Failed to parse config"})
    /\ (~call.help_readable
          /\ call.pc \notin {"read_config", "from_toml", "daemonize", "connect",
                             "sync_once", "load_help_text"})
          => call.pc = "exited"
    /\ (call.pc = "exited"
          /\ call.error \in {"Failed to read config file", "Failed to parse config",
                             "Failed to load help text"})
          => ~Operated

\* C26 witness: the configuration is accepted, the initial sync has received
\* an event, the help file cannot be read: main has ended with "Failed to
\* load help text" and nothing was done
C26_Witness ==
    /\ call.fn = "main"
    /\ call.pc = "exited"
    /\ call.error = "Failed to load help text"
    /\ call.toml_str \in GoodTexts
    /\ call.received = 1
    /\ ~Operated

====
